---- MODULE Spec2Model ----
(***************************************************************************)
(* One invocation of the question-answering graph built by main() in       *)
(* src/simple_langgraph_test.py: the session state (GraphState), the five  *)
(* nodes, the router and the step-at-a-time engine that merges each node's *)
(* returned delta into the state and follows the outgoing edge.            *)
(*                                                                         *)
(* Conventions.  Python None is the string None.  An optional value whose  *)
(* payload is a sequence or a record is a sequence of length at most one:  *)
(* << >> is "absent" (None, a missing dict key, a missing attribute) and   *)
(* << v >> is "present with value v".  A text is a sequence of tokens, so  *)
(* that joining and splitting are computed and not assumed.                *)
(***************************************************************************)
EXTENDS Integers, Sequences, FiniteSets, TLC

VARIABLES
    env,        \* process environment: the four settings read with os.getenv
    entry,      \* the node START points at
    status,     \* "idle" | "running" | "done" | "error"
    error,      \* the exception that ended the invocation, or None
    next,       \* the node the engine runs next, or END
    state,      \* GraphState: messages, question_type, corpus_data
    delta,      \* the dict returned by the node that ran last
    executed,   \* the nodes the engine has called, in order
    calls,      \* the remote calls issued so far, in order
    nextId,     \* number of message ids handed out so far
    branch,     \* the label route_by_question_type returned, or None
    response,   \* what structured_llm.invoke yielded in the Classifier
    query,      \* the text and top_k Retrieval passed to rag.retrieval_query
    resp,       \* what rag.retrieval_query returned in Retrieval
    listed,     \* what rag.list_files returned in Corpus Metadata
    prompt,     \* the prompt Synthesis passed to llm.invoke
    fsread,     \* what the step that reads the file system found there
    input       \* the dict handed to lg_graph.invoke

vars == << env, entry, status, error, next, state, delta, executed, calls,
           nextId, branch, response, query, resp, listed, prompt, fsread,
           input >>

-----------------------------------------------------------------------------
(* Bounds of the model *)

MaxPassages == 2
MaxDocs == 2
MaxFiles == 3
MaxPdfBytes == 3

-----------------------------------------------------------------------------
(* Values *)

None == "None"
END == "__end__"
NoId == << >>

Some(v) == << v >>
Absent == << >>

EnvNames == {"GCS_BUCKET", "RAG_CORPUS", "GCP_PROJECT_ID", "GCP_LOCATION"}
EnvValues == {None, "", "set"}

\* Python truthiness of an os.getenv result: None and "" are falsy.
Truthy(v) == v \notin {None, ""}

Range(s) == {s[i] : i \in 1..Len(s)}

SeqsUpTo(S, n) == UNION {[1..k -> S] : k \in 0..n}

IsPrefix(s, t) == Len(s) <= Len(t) /\ \A i \in 1..Len(s) : s[i] = t[i]

Last(s) == s[Len(s)]

\* sep.join(texts) on token sequences.
RECURSIVE Join(_, _)
Join(texts, sep) ==
    IF Len(texts) = 0 THEN << >>
    ELSE IF Len(texts) = 1 THEN texts[1]
    ELSE texts[1] \o << sep >> \o Join(Tail(texts), sep)

\* sorted(S) for a set of names; a name is its rank in lexicographic order.
RECURSIVE sorted(_)
sorted(S) ==
    IF S = {} THEN << >>
    ELSE LET m == CHOOSE x \in S : \A y \in S : x <= y
         IN  << m >> \o sorted(S \ {m})

-----------------------------------------------------------------------------
(* Messages and the messages reducer *)

Message(type, content, tag) ==
    [type |-> type, content |-> content, id |-> NoId, tag |-> tag]

HumanMessage(content) == Message("human", content, None)
SystemMessage(content) == Message("system", content, None)
AIMessage(content, tag) == Message("ai", content, tag)

\* A message without an id gets a fresh one; n ids have been handed out.
RECURSIVE AssignIds(_, _)
AssignIds(msgs, n) ==
    IF Len(msgs) = 0 THEN << >>
    ELSE IF msgs[1].id = NoId
         THEN << [msgs[1] EXCEPT !.id = << n + 1 >>] >> \o AssignIds(Tail(msgs), n + 1)
         ELSE << msgs[1] >> \o AssignIds(Tail(msgs), n)

CountNoId(msgs) == Cardinality({i \in 1..Len(msgs) : msgs[i].id = NoId})

\* merged-by-id: a message whose id is already present replaces that
\* message in place, any other message is appended.
RECURSIVE MergeById(_, _)
MergeById(left, right) ==
    IF Len(right) = 0 THEN left
    ELSE LET m == right[1]
             hit == {i \in 1..Len(left) : left[i].id = m.id}
         IN  IF hit # {}
             THEN MergeById([left EXCEPT ![CHOOSE i \in hit : TRUE] = m], Tail(right))
             ELSE MergeById(Append(left, m), Tail(right))

add_messages_overwrite(left, right, n) == AssignIds(right, n)

add_messages(left, right, n) == MergeById(left, AssignIds(right, n))

-----------------------------------------------------------------------------
(* GraphState and the merge of a node's returned dict *)

GraphState_empty_corpus_data(messages) ==
    [messages |-> messages, question_type |-> None, corpus_data |-> Some(<< >>)]

\* GraphState(messages=...) with the two optional fields at their defaults.
GraphState(messages) ==
    [messages |-> messages, question_type |-> None, corpus_data |-> Absent]

\* A returned dict: each key is absent or carries a value.
Delta(messages, question_type, corpus_data) ==
    [messages |-> messages, question_type |-> question_type,
     corpus_data |-> corpus_data]

NoDelta == Delta(Absent, Absent, Absent)

MergeState_reset_missing(s, d, n) ==
    [messages |->
        IF d.messages = Absent THEN s.messages
        ELSE add_messages(s.messages, d.messages[1], n),
     question_type |->
        IF d.question_type = Absent THEN None
        ELSE d.question_type[1],
     corpus_data |->
        IF d.corpus_data = Absent THEN s.corpus_data
        ELSE Some(d.corpus_data[1])]

\* messages is reduced with add_messages; the other two fields hold the
\* last value written.
MergeState(s, d, n) ==
    [messages |->
        IF d.messages = Absent THEN s.messages
        ELSE add_messages(s.messages, d.messages[1], n),
     question_type |->
        IF d.question_type = Absent THEN s.question_type
        ELSE d.question_type[1],
     corpus_data |->
        IF d.corpus_data = Absent THEN s.corpus_data
        ELSE Some(d.corpus_data[1])]

IdsUsed(d) == IF d.messages = Absent THEN 0 ELSE CountNoId(d.messages[1])

\* ValueError("<name> environment variable is required")
Required(name) == [type |-> "ValueError", about |-> name]
Exception(type) == [type |-> type, about |-> None]
NoError == Exception(None)

\* What a node call comes to: the exception it raised (or None), the dict
\* it returned, the remote calls it issued.
Returned(d, issued) == [error |-> NoError, delta |-> d, calls |-> issued]
Raised(e, issued) == [error |-> e, delta |-> NoDelta, calls |-> issued]

-----------------------------------------------------------------------------
(* shared/gcp_rag_helpers.py *)

\* Outcome of one remote call: it returns, or the client raises.
CallOutcomes == {"ok", "fail"}

GcsUri(bucket, blob) == [bucket |-> bucket, blob |-> blob]

upload_to_gcs(local_file, bucket, dest_blob, out) ==
    IF out = "fail" THEN [error |-> Exception("ServiceError"), uri |-> Absent]
    ELSE [error |-> NoError, uri |-> Some(GcsUri(bucket, dest_blob))]

import_files_to_rag_corpus_unchecked(e, corpus_name, gcs_uris, out) ==
    IF out = "fail" THEN Raised(Exception("ServiceError"), << "rag_import" >>)
    ELSE Returned(NoDelta, << "rag_import" >>)

import_files_to_rag_corpus(e, corpus_name, gcs_uris, out) ==
    IF ~Truthy(e["GCP_PROJECT_ID"]) THEN Raised(Required("GCP_PROJECT_ID"), << >>)
    ELSE IF ~Truthy(e["GCP_LOCATION"]) THEN Raised(Required("GCP_LOCATION"), << >>)
    ELSE IF out = "fail" THEN Raised(Exception("ServiceError"), << "rag_import" >>)
    ELSE Returned(NoDelta, << "rag_import" >>)

\* rag.list_files on a corpus name that names no corpus cannot list
\* anything: the call is issued and the service rejects it.
list_corpus_files(e, corpus_name, out) ==
    IF ~Truthy(e["GCP_PROJECT_ID"])
    THEN [error |-> Required("GCP_PROJECT_ID"), files |-> << >>, calls |-> << >>]
    ELSE IF ~Truthy(e["GCP_LOCATION"])
    THEN [error |-> Required("GCP_LOCATION"), files |-> << >>, calls |-> << >>]
    ELSE IF out.kind = "fail" \/ ~Truthy(corpus_name)
         THEN [error |-> Exception("ServiceError"), files |-> << >>, calls |-> << "rag_list" >>]
    ELSE [error |-> NoError, files |-> out.files, calls |-> << "rag_list" >>]

upload_file_by_index_late_check(e, index, bucket, corpus_name, dir, up, imp) ==
    IF dir = Absent THEN Raised(Exception("FileNotFoundError"), << >>)
    ELSE LET files == sorted(dir[1]) IN
    IF index < 0 \/ index >= Len(files)
    THEN Raised(Exception("IndexError"), << "gcs_upload" >>)
    ELSE LET filename == files[index + 1]
             u == upload_to_gcs(filename, bucket, filename, up)
         IN  IF u.error # NoError THEN Raised(u.error, << "gcs_upload" >>)
             ELSE LET i == import_files_to_rag_corpus(e, corpus_name, << u.uri[1] >>, imp)
                  IN  [i EXCEPT !.calls = << "gcs_upload" >> \o i.calls]

\* dir is the staging directory: absent, or the set of names in it.
upload_file_by_index(e, index, bucket, corpus_name, dir, up, imp) ==
    IF dir = Absent THEN Raised(Exception("FileNotFoundError"), << >>)
    ELSE LET files == sorted(dir[1]) IN
    IF index < 0 \/ index >= Len(files) THEN Raised(Exception("IndexError"), << >>)
    ELSE LET filename == files[index + 1]
             u == upload_to_gcs(filename, bucket, filename, up)
         IN  IF u.error # NoError THEN Raised(u.error, << "gcs_upload" >>)
             ELSE LET i == import_files_to_rag_corpus(e, corpus_name, << u.uri[1] >>, imp)
                  IN  [i EXCEPT !.calls = << "gcs_upload" >> \o i.calls]

-----------------------------------------------------------------------------
(* simple_langgraph_test.py: the nodes *)

UploadIndex == 1

EmptyMessages_with_notice ==
    Delta(Some(<< AIMessage(<< "upload skipped" >>, None) >>), Absent, Absent)

EmptyMessages == Delta(Some(<< >>), Absent, Absent)

upload_node_bucket_only(e, dir, up, imp) ==
    LET bucket == e["GCS_BUCKET"]
        corpus == e["RAG_CORPUS"]
    IN  IF ~Truthy(bucket) THEN Returned(EmptyMessages, << >>)
        ELSE LET r == upload_file_by_index(e, UploadIndex, bucket, corpus, dir, up, imp)
             IN  IF r.error # NoError THEN r
                 ELSE Returned(EmptyMessages, r.calls)

\* lines 61-74
upload_node(e, dir, up, imp) ==
    LET bucket == e["GCS_BUCKET"]
        corpus == e["RAG_CORPUS"]
    IN  IF ~Truthy(bucket) \/ ~Truthy(corpus) THEN Returned(EmptyMessages, << >>)
        ELSE LET r == upload_file_by_index(e, UploadIndex, bucket, corpus, dir, up, imp)
             IN  IF r.error # NoError THEN r
                 ELSE Returned(EmptyMessages, r.calls)

\* int(os.getenv("RAG_TOP_K", "5")): the numerals of the model and their
\* values; any other string makes int() raise.
DefaultTopK == "5"
TopKValues == {None, "3", "many"}
IsNumeral(v) == v \in {"3", "5"}
int(v) == CASE v = "3" -> 3 [] v = "5" -> 5

Sentinel == << "No relevant context was found in the knowledge base." >>
BlankLine == "\n\n"

\* A passage is an object that has a text attribute or not.  The response
\* has a contexts attribute or not; that attribute is the list of passages
\* itself (items) or an object whose own contexts attribute is the list.
PassageTexts == {<< "p1" >>, << "p2" >>, << >>}
Passages == {[text |-> Some(t)] : t \in PassageTexts} \cup {[text |-> Absent]}
PassageLists == SeqsUpTo(Passages, MaxPassages)
Flat(items) == [items |-> Some(items), contexts |-> Absent]
Nested(items) == [items |-> Absent, contexts |-> Some(items)]
Responses ==
    {[contexts |-> Absent]}
    \cup {[contexts |-> Some(Flat(l))] : l \in PassageLists}
    \cup {[contexts |-> Some(Nested(l))] : l \in PassageLists}
NoResponse == [contexts |-> Absent]
RetrievalOutcomes ==
    {[kind |-> "fail", resp |-> NoResponse]}
    \cup {[kind |-> "ok", resp |-> r] : r \in Responses}

HasText(c) == c.text # Absent

context_texts_flat_only(r) ==
    IF r.contexts = Absent THEN << >>
    ELSE LET contexts == IF r.contexts[1].items = Absent
                         THEN << >>
                         ELSE r.contexts[1].items[1]
             withText == SelectSeq(contexts, HasText)
         IN  [i \in 1..Len(withText) |-> withText[i].text[1]]

\* lines 106-114: the texts of the passages that have one, in order.
context_texts(r) ==
    IF r.contexts = Absent THEN << >>
    ELSE LET contexts == IF r.contexts[1].contexts = Absent
                         THEN r.contexts[1].items[1]
                         ELSE r.contexts[1].contexts[1]
             withText == SelectSeq(contexts, HasText)
         IN  [i \in 1..Len(withText) |-> withText[i].text[1]]

context_text_no_sentinel(texts) == Join(texts, BlankLine)

\* lines 116-120
context_text(texts) ==
    IF texts # << >> THEN Join(texts, BlankLine) ELSE Sentinel

retrieve_config_error_no_project(e) ==
    IF ~Truthy(e["RAG_CORPUS"]) THEN Required("RAG_CORPUS")
    ELSE IF ~Truthy(e["GCP_LOCATION"]) THEN Required("GCP_LOCATION")
    ELSE NoError

\* lines 87-92
retrieve_config_error(e) ==
    IF ~Truthy(e["RAG_CORPUS"]) THEN Required("RAG_CORPUS")
    ELSE IF ~Truthy(e["GCP_PROJECT_ID"]) THEN Required("GCP_PROJECT_ID")
    ELSE IF ~Truthy(e["GCP_LOCATION"]) THEN Required("GCP_LOCATION")
    ELSE NoError

NoQuery == Absent

retrieve_node(s, e, top_k_env, out) ==
    LET k == IF top_k_env = None THEN DefaultTopK ELSE top_k_env
        user_message == Last(s.messages).content
        bad == retrieve_config_error(e)
        none == [query |-> NoQuery, resp |-> Absent]
    IN  IF ~IsNumeral(k)
        THEN [result |-> Raised([type |-> "ValueError", about |-> "RAG_TOP_K"], << >>)] @@ none
        ELSE IF bad # NoError THEN [result |-> Raised(bad, << >>)] @@ none
        ELSE LET q == Some([text |-> user_message, top_k |-> int(k)]) IN
             IF out.kind = "fail"
             THEN [result |-> Raised(Exception("ServiceError"), << "rag_query" >>),
                   query |-> q, resp |-> Absent]
             ELSE [result |->
                      Returned(Delta(Some(<< AIMessage(context_text(context_texts(out.resp)),
                                                       "rag_context") >>),
                                     Absent, Absent),
                               << "rag_query" >>),
                   query |-> q, resp |-> Some(out.resp)]

\* A listed file as the client returns it.  file_status is an attribute the
\* object has or not, and so is its state; gcs_source is unset or carries
\* the uris; the timestamps are unset or set; user_metadata is an attribute
\* the object has or not.
FileStates == {"ACTIVE", "ERROR"}
FileStatuses ==
    {Absent, Some([state |-> Absent])}
    \cup {Some([state |-> Some(st)]) : st \in FileStates}
FileProfiles ==
    {[description |-> << "about" >>, gcs_source |-> Some([uris |-> << << "gs://b/1" >>, << "gs://b/2" >> >>]),
      create_time |-> Some(<< "t1" >>), update_time |-> Some(<< "t2" >>),
      user_metadata |-> Some(<< "{}" >>)],
     [description |-> << >>, gcs_source |-> Some([uris |-> << >>]),
      create_time |-> Some(<< "t1" >>), update_time |-> Absent,
      user_metadata |-> Some(<< >>)],
     [description |-> << >>, gcs_source |-> Absent,
      create_time |-> Absent, update_time |-> Absent,
      user_metadata |-> Absent]}
FileNames == {<< "f1" >>, << "f2" >>}
RagFiles ==
    {[display_name |-> nm, file_status |-> fs] @@ p :
        nm \in FileNames, fs \in FileStatuses, p \in FileProfiles}
ListingOutcomes ==
    {[kind |-> "fail", files |-> << >>]}
    \cup {[kind |-> "ok", files |-> l] : l \in SeqsUpTo(RagFiles, MaxDocs)}

\* str(x) of an enum member of class State, and s.split(".") on tokens.
str_state(st) == << "State", ".", st >>

RECURSIVE split(_, _)
split(text, sep) ==
    IF sep \notin Range(text) THEN << text >>
    ELSE LET i == CHOOSE j \in 1..Len(text) :
                      text[j] = sep /\ \A h \in 1..(j - 1) : text[h] # sep
         IN  << SubSeq(text, 1, i - 1) >> \o split(SubSeq(text, i + 1, Len(text)), sep)

NA == << "N/A" >>
UNKNOWN == << "UNKNOWN" >>

file_status_default_na(f) ==
    IF f.file_status # Absent /\ f.file_status[1].state # Absent
    THEN Last(split(str_state(f.file_status[1].state[1]), "."))
    ELSE NA

\* lines 140-142
file_status(f) ==
    IF f.file_status # Absent /\ f.file_status[1].state # Absent
    THEN Last(split(str_state(f.file_status[1].state[1]), "."))
    ELSE UNKNOWN

\* lines 145-149
gcs_uri(f) ==
    IF f.gcs_source # Absent /\ f.gcs_source[1].uris # << >>
    THEN f.gcs_source[1].uris[1]
    ELSE NA

\* lines 151-165
CorpusData(f) ==
    [name |-> f.display_name,
     description |-> f.description,
     status |-> file_status(f),
     gcs_uri |-> gcs_uri(f),
     created |-> IF f.create_time # Absent THEN f.create_time[1] ELSE NA,
     updated |-> IF f.update_time # Absent THEN f.update_time[1] ELSE NA,
     user_metadata |-> IF f.user_metadata # Absent /\ f.user_metadata[1] # << >>
                       THEN f.user_metadata ELSE Absent]

\* lines 137-165: one entry per listed file, in the listing's order.
corpus_data_list(files) == [i \in 1..Len(files) |-> CorpusData(files[i])]

corpus_data_node(e, out) ==
    LET corpus == e["RAG_CORPUS"]
        l == list_corpus_files(e, corpus, out)
    IN  IF l.error # NoError
        THEN [result |-> Raised(l.error, l.calls), listed |-> Absent]
        ELSE [result |-> Returned(Delta(Absent, Absent, Some(corpus_data_list(l.files))),
                                  l.calls),
              listed |-> Some(l.files)]

\* What structured_llm.invoke comes to: a QuestionTypeResponse whose
\* question_type is one of the two labels or None; no object at all, when
\* the model's reply carries no structured output to parse; an exception
\* from the parser when the reply does not validate against the schema; an
\* exception from the client.
QuestionTypes == {"corpus_overview", "specific_query"}
StructuredOutcomes ==
    {[kind |-> "object", question_type |-> q] : q \in QuestionTypes \cup {None}}
    \cup {[kind |-> k, question_type |-> None] : k \in {"nothing", "unparseable", "fail"}}

determine_question_type(s, out) ==
    IF out.kind = "fail" THEN Raised(Exception("ServiceError"), << "llm_structured" >>)
    ELSE IF out.kind = "unparseable"
    THEN Raised(Exception("OutputParserException"), << "llm_structured" >>)
    ELSE IF out.kind = "nothing"
    THEN Raised(Exception("AttributeError"), << "llm_structured" >>)
    ELSE Returned(Delta(Absent, Some(out.question_type), Absent), << "llm_structured" >>)

SummaryInstruction ==
    << "You are a helpful assistant. Answer the user's question using the provided context." >>
Replies == {<< "answer" >>}
InvokeOutcomes ==
    {[kind |-> "fail", content |-> << >>]}
    \cup {[kind |-> "ok", content |-> c] : c \in Replies}

\* line 211
prompt_messages(s) == << SystemMessage(SummaryInstruction) >> \o s.messages

summary_node_returns_instruction(s, out) ==
    IF out.kind = "fail" THEN Raised(Exception("ServiceError"), << "llm_invoke" >>)
    ELSE Returned(Delta(Some(<< SystemMessage(SummaryInstruction),
                               AIMessage(out.content, None) >>), Absent, Absent),
                  << "llm_invoke" >>)

summary_node(s, out) ==
    IF out.kind = "fail" THEN Raised(Exception("ServiceError"), << "llm_invoke" >>)
    ELSE Returned(Delta(Some(<< AIMessage(out.content, None) >>), Absent, Absent),
                  << "llm_invoke" >>)

route_unless_specific_query(s) ==
    IF s.question_type # "specific_query" THEN "corpus_data_node"
    ELSE "retrieve_node"

route_by_question_type(s) ==
    IF s.question_type = "corpus_overview" THEN "corpus_data_node"
    ELSE "retrieve_node"

-----------------------------------------------------------------------------
(* simple_langgraph_test.py: the graph main() builds, and its execution *)

Nodes == {"upload_node", "determine_question_type", "corpus_data_node",
          "retrieve_node", "summary_node"}

PrimaryEntry_upload_first == "upload_node"

\* START -> determine_question_type is the edge main() adds; the edge
\* START -> upload_node is the alternate entry main() keeps commented out.
PrimaryEntry == "determine_question_type"
IngestionEntry == "upload_node"
Entries == {PrimaryEntry, IngestionEntry}

\* the path map of add_conditional_edges
PathMap(label) ==
    CASE label = "corpus_data_node" -> "corpus_data_node"
      [] label = "retrieve_node" -> "retrieve_node"

Successor_corpus_to_retrieve(node, s) ==
    CASE node = "upload_node" -> "determine_question_type"
      [] node = "determine_question_type" -> PathMap(route_by_question_type(s))
      [] node = "corpus_data_node" -> "retrieve_node"
      [] node = "retrieve_node" -> "summary_node"
      [] node = "summary_node" -> END

\* the edges: where the engine goes after node, with s the merged state
Successor(node, s) ==
    CASE node = "upload_node" -> "determine_question_type"
      [] node = "determine_question_type" -> PathMap(route_by_question_type(s))
      [] node = "corpus_data_node" -> "summary_node"
      [] node = "retrieve_node" -> "summary_node"
      [] node = "summary_node" -> END

OnRaise_swallow(node, s) ==
    [status |-> "running", next |-> Successor(node, s)]

\* The graph is compiled without retry policy or error handler and
\* lg_graph.invoke is not wrapped: an exception raised by a node leaves
\* invoke, and nothing runs after it.
OnRaise(node, s) == [status |-> "error", next |-> END]

UserInputs == {<< "question" >>, << "question", "f1" >>}

Init ==
    /\ env \in [EnvNames -> EnvValues]
    /\ entry \in Entries
    /\ status = "idle"
    /\ error = NoError
    /\ next = entry
    /\ state = GraphState(<< >>)
    /\ delta = NoDelta
    /\ executed = << >>
    /\ calls = << >>
    /\ nextId = 0
    /\ branch = None
    /\ response = Absent
    /\ query = NoQuery
    /\ resp = Absent
    /\ listed = Absent
    /\ prompt = Absent
    /\ fsread = Absent
    /\ input = Absent

\* lg_graph.invoke({"messages": [HumanMessage(content=user_input)]})
invoke ==
    /\ status = "idle"
    /\ \E user_input \in UserInputs :
          LET given == Delta(Some(<< HumanMessage(user_input) >>), Absent, Absent)
          IN  /\ state' = MergeState(state, given, nextId)
              /\ input' = Some(given)
    /\ nextId' = nextId + 1
    /\ status' = "running"
    /\ UNCHANGED << env, entry, error, next, delta, executed, calls, branch,
                    response, query, resp, listed, prompt, fsread >>

\* One step of the engine: node has been called and came to r.
Step(node, r) ==
    /\ executed' = Append(executed, node)
    /\ calls' = calls \o r.calls
    /\ IF r.error # NoError
       THEN /\ error' = r.error
            /\ status' = OnRaise(node, state).status
            /\ next' = OnRaise(node, state).next
            /\ UNCHANGED << state, delta, nextId, branch >>
       ELSE LET merged == MergeState(state, r.delta, nextId)
                succ == Successor(node, merged)
            IN  /\ state' = merged
                /\ delta' = r.delta
                /\ nextId' = nextId + IdsUsed(r.delta)
                /\ next' = succ
                /\ status' = IF succ = END THEN "done" ELSE "running"
                /\ branch' = IF node = "determine_question_type"
                             THEN route_by_question_type(merged) ELSE branch
                /\ UNCHANGED error
    /\ UNCHANGED << env, entry, input >>

Ready(node) == status = "running" /\ next = node

Dirs == {Absent} \cup {Some(S) : S \in SUBSET (1..MaxFiles)}

step_upload_node ==
    /\ Ready("upload_node")
    /\ \E dir \in Dirs, up \in CallOutcomes, imp \in CallOutcomes :
          /\ Step("upload_node", upload_node(env, dir, up, imp))
          /\ fsread' = IF Truthy(env["GCS_BUCKET"]) /\ Truthy(env["RAG_CORPUS"])
                        THEN Some(dir) ELSE fsread
    /\ UNCHANGED << response, query, resp, listed, prompt >>

step_determine_question_type ==
    /\ Ready("determine_question_type")
    /\ \E out \in StructuredOutcomes :
          /\ Step("determine_question_type", determine_question_type(state, out))
          /\ response' = Some(out)
    /\ UNCHANGED << query, resp, listed, prompt, fsread >>

step_corpus_data_node ==
    /\ Ready("corpus_data_node")
    /\ \E out \in ListingOutcomes :
          LET r == corpus_data_node(env, out)
          IN  /\ Step("corpus_data_node", r.result)
              /\ listed' = r.listed
    /\ UNCHANGED << response, query, resp, prompt, fsread >>

step_retrieve_node ==
    /\ Ready("retrieve_node")
    /\ \E top_k_env \in TopKValues, out \in RetrievalOutcomes :
          LET r == retrieve_node(state, env, top_k_env, out)
          IN  /\ Step("retrieve_node", r.result)
              /\ query' = r.query
              /\ resp' = r.resp
    /\ UNCHANGED << response, listed, prompt, fsread >>

step_summary_node ==
    /\ Ready("summary_node")
    /\ \E out \in InvokeOutcomes :
          /\ Step("summary_node", summary_node(state, out))
          /\ prompt' = Some(prompt_messages(state))
    /\ UNCHANGED << response, query, resp, listed, fsread >>

Next ==
    \/ invoke
    \/ step_upload_node
    \/ step_determine_question_type
    \/ step_corpus_data_node
    \/ step_retrieve_node
    \/ step_summary_node

Spec == Init /\ [][Next]_vars

-----------------------------------------------------------------------------
(* upload_direct_into_context.py: the graph load_pdf -> llm -> END *)

\* GraphState(messages=..., pdf_path="")
PdfGraphState(messages) == [messages |-> messages, pdf_path |-> ""]

\* A dict of this graph: each of the two keys is absent or carries a value.
PdfDelta(messages, pdf_path) == [messages |-> messages, pdf_path |-> pdf_path]
PdfNoDelta == PdfDelta(Absent, Absent)

\* messages is reduced with add_messages, pdf_path holds the last value.
PdfMergeState(s, d, n) ==
    [messages |->
        IF d.messages = Absent THEN s.messages
        ELSE add_messages(s.messages, d.messages[1], n),
     pdf_path |->
        IF d.pdf_path = Absent THEN s.pdf_path
        ELSE d.pdf_path[1]]

PdfRaised(e, issued) == [error |-> e, delta |-> PdfNoDelta, calls |-> issued]

\* The document's bytes, and what the file system holds at a path: nothing,
\* something open() cannot read (a directory, a file without permission),
\* or a file with its bytes.
ByteValues == {0, 77, 255}
PdfContents == SeqsUpTo(ByteValues, MaxPdfBytes)
FsOutcomes ==
    {[exists |-> FALSE, bytes |-> Absent], [exists |-> TRUE, bytes |-> Absent]}
    \cup {[exists |-> TRUE, bytes |-> Some(b)] : b \in PdfContents}

\* the base64 alphabet: the character of the sextet i is B64Alphabet[i + 1]
B64Alphabet ==
    << "A", "B", "C", "D", "E", "F", "G", "H", "I", "J", "K", "L", "M", "N", "O", "P",
       "Q", "R", "S", "T", "U", "V", "W", "X", "Y", "Z", "a", "b", "c", "d", "e", "f",
       "g", "h", "i", "j", "k", "l", "m", "n", "o", "p", "q", "r", "s", "t", "u", "v",
       "w", "x", "y", "z", "0", "1", "2", "3", "4", "5", "6", "7", "8", "9", "+", "/" >>
B64Char(sextet) == B64Alphabet[sextet + 1]

\* base64.b64encode(b).decode("utf-8"): three bytes give four characters,
\* a last group of one or two bytes is padded with "=".
RECURSIVE b64encode(_)
b64encode(b) ==
    IF Len(b) = 0 THEN << >>
    ELSE IF Len(b) = 1
         THEN << B64Char(b[1] \div 4), B64Char((b[1] % 4) * 16), "=", "=" >>
    ELSE IF Len(b) = 2
         THEN << B64Char(b[1] \div 4),
                 B64Char((b[1] % 4) * 16 + (b[2] \div 16)),
                 B64Char((b[2] % 16) * 4), "=" >>
    ELSE << B64Char(b[1] \div 4),
            B64Char((b[1] % 4) * 16 + (b[2] \div 16)),
            B64Char((b[2] % 16) * 4 + (b[3] \div 64)),
            B64Char(b[3] % 64) >> \o b64encode(SubSeq(b, 4, Len(b)))

TextPart(text) == [type |-> "text", text |-> text]
MediaPart(data) == [type |-> "media", mime_type |-> "application/pdf", data |-> data]

load_pdf_node_strict(s, fs) ==
    IF s.pdf_path = "" \/ ~fs.exists
    THEN PdfRaised(Exception("FileNotFoundError"), << >>)
    ELSE IF fs.bytes = Absent
    THEN PdfRaised(Exception("OSError"), << >>)
    ELSE Returned(PdfDelta(Some(<< HumanMessage(
                      << TextPart(Last(s.messages).content),
                         MediaPart(b64encode(fs.bytes[1])) >>) >>), Absent),
                  << >>)

\* load_pdf_node: fs is what the file system holds at state.pdf_path.
load_pdf_node(s, fs) ==
    IF s.pdf_path = "" \/ ~fs.exists
    THEN Returned(PdfDelta(Some(<< >>), Absent), << >>)
    ELSE IF fs.bytes = Absent
    THEN PdfRaised(Exception("OSError"), << >>)
    ELSE Returned(PdfDelta(Some(<< HumanMessage(
                      << TextPart(Last(s.messages).content),
                         MediaPart(b64encode(fs.bytes[1])) >>) >>), Absent),
                  << >>)

\* llm_node: out is what llm.invoke(state.messages) comes to.
llm_node(s, out) ==
    IF out.kind = "fail" THEN PdfRaised(Exception("ServiceError"), << "llm_invoke" >>)
    ELSE Returned(PdfDelta(Some(<< AIMessage(out.content, None) >>), Absent),
                  << "llm_invoke" >>)

\* the edges START -> load_pdf -> llm -> END
PdfEntry == "load_pdf"
PdfSuccessor(node) ==
    CASE node = "load_pdf" -> "llm"
      [] node = "llm" -> END

PdfPaths == {"", "report.pdf"}
PdfSeeds ==
    {<< HumanMessage(u) >> : u \in UserInputs}
    \cup {<< HumanMessage(<< "question" >>), HumanMessage(<< "question", "f1" >>) >>}
PdfInputs ==
    {PdfDelta(Some(m), Absent) : m \in PdfSeeds}
    \cup {PdfDelta(Some(m), Some(p)) : m \in PdfSeeds, p \in PdfPaths}

InitPdf ==
    /\ env = [n \in EnvNames |-> None]
    /\ entry = PdfEntry
    /\ status = "idle"
    /\ error = NoError
    /\ next = entry
    /\ state = PdfGraphState(<< >>)
    /\ delta = PdfNoDelta
    /\ executed = << >>
    /\ calls = << >>
    /\ nextId = 0
    /\ branch = None
    /\ response = Absent
    /\ query = NoQuery
    /\ resp = Absent
    /\ listed = Absent
    /\ prompt = Absent
    /\ fsread = Absent
    /\ input = Absent

\* lg_graph.invoke({"messages": [...], "pdf_path": pdf_path})
invoke_pdf ==
    /\ status = "idle"
    /\ \E given \in PdfInputs :
          /\ state' = PdfMergeState(state, given, nextId)
          /\ nextId' = nextId + IdsUsed(given)
          /\ input' = Some(given)
    /\ status' = "running"
    /\ UNCHANGED << env, entry, error, next, delta, executed, calls, branch,
                    response, query, resp, listed, prompt, fsread >>

\* One step of the engine on this graph: node has been called and came to r.
PdfStep(node, r) ==
    /\ executed' = Append(executed, node)
    /\ calls' = calls \o r.calls
    /\ IF r.error # NoError
       THEN /\ error' = r.error
            /\ status' = "error"
            /\ next' = END
            /\ UNCHANGED << state, delta, nextId >>
       ELSE LET merged == PdfMergeState(state, r.delta, nextId)
                succ == PdfSuccessor(node)
            IN  /\ state' = merged
                /\ delta' = r.delta
                /\ nextId' = nextId + IdsUsed(r.delta)
                /\ next' = succ
                /\ status' = IF succ = END THEN "done" ELSE "running"
                /\ UNCHANGED error
    /\ UNCHANGED << env, entry, input, branch, response, query, resp, listed >>

step_load_pdf ==
    /\ Ready("load_pdf")
    /\ \E fs \in FsOutcomes :
          /\ PdfStep("load_pdf", load_pdf_node(state, fs))
          /\ fsread' = IF state.pdf_path = "" THEN fsread ELSE Some(fs)
    /\ UNCHANGED prompt

step_llm ==
    /\ Ready("llm")
    /\ \E out \in InvokeOutcomes :
          /\ PdfStep("llm", llm_node(state, out))
          /\ prompt' = Some(state.messages)
    /\ UNCHANGED fsread

NextPdf ==
    \/ invoke_pdf
    \/ step_load_pdf
    \/ step_llm

SpecPdf == InitPdf /\ [][NextPdf]_vars

-----------------------------------------------------------------------------
(* Properties *)

Ran(node) == node \in Range(executed)
LastRan(node) == executed # << >> /\ Last(executed) = node

\* The passages a response carries, whichever of the two shapes it has.
ReturnedPassages(r) ==
    IF r.contexts = Absent THEN << >>
    ELSE IF r.contexts[1].items # Absent THEN r.contexts[1].items[1]
    ELSE r.contexts[1].contexts[1]

StatusAbsent(f) == f.file_status = Absent \/ f.file_status[1].state = Absent

\* Values the router is probed with, beyond those a classification yields.
RouterProbe == QuestionTypes \cup {None, "", "other", "CORPUS_OVERVIEW", "corpus_overview "}

\* C1: route_by_question_type returns the corpus-metadata label if and only
\* if question_type is exactly corpus_overview, and the retrieval label for
\* every other value; in a run, the label returned after the Classifier is
\* the node the engine runs next.
C1_RouterIffCorpusOverview ==
    /\ \A q \in RouterProbe :
          LET label == route_by_question_type([question_type |-> q])
          IN  /\ label \in {"corpus_data_node", "retrieve_node"}
              /\ label = "corpus_data_node" <=> q = "corpus_overview"
    /\ branch # None =>
          /\ branch \in {"corpus_data_node", "retrieve_node"}
          /\ branch = "corpus_data_node" <=> state.question_type = "corpus_overview"
          /\ LastRan("determine_question_type") => next = branch

C1_Witness ==
    /\ LastRan("determine_question_type")
    /\ state.question_type = None
    /\ branch = "retrieve_node"
    /\ next = "retrieve_node"

PrimaryPaths ==
    {<< "determine_question_type", "corpus_data_node", "summary_node" >>,
     << "determine_question_type", "retrieve_node", "summary_node" >>}

\* C2: in the primary graph the nodes called are, in order, the Classifier,
\* then one of Corpus Metadata and Retrieval, then Synthesis; a run in which
\* no node raises calls all three and then terminates; no node is called
\* twice and Corpus Metadata and Retrieval are never both called.
C2_PrimaryOrder ==
    entry = PrimaryEntry =>
        /\ \E p \in PrimaryPaths : IsPrefix(executed, p)
        /\ status = "done" => executed \in PrimaryPaths /\ next = END
        /\ (Len(executed) = 3 /\ error = NoError) => status = "done"
        /\ (status = "running" /\ error = NoError) => Len(executed) < 3
        /\ ~(Ran("corpus_data_node") /\ Ran("retrieve_node"))

C2_Witness ==
    /\ entry = PrimaryEntry
    /\ status = "done"
    /\ executed = << "determine_question_type", "corpus_data_node", "summary_node" >>

\* C3: every step leaves the messages it found as an unchanged prefix of
\* the messages it leaves.
C3_MessagesAppendOnly ==
    [][IsPrefix(state.messages, state'.messages)]_vars

C3_Witness ==
    /\ status = "done"
    /\ Len(state.messages) = 3
    /\ Ran("retrieve_node")

NoLabel(out) ==
    \/ out.kind \in {"nothing", "unparseable"}
    \/ out.kind = "object" /\ out.question_type = None

\* C4: when the structured classification call yields no label, the
\* Classifier raises nothing, question_type stays unset and the engine
\* goes on to Retrieval.
C4_NoLabelFallsThrough ==
    (LastRan("determine_question_type") /\ NoLabel(response[1])) =>
        /\ error = NoError
        /\ status = "running"
        /\ state.question_type = None
        /\ next = "retrieve_node"

RetrievalSettings == {"RAG_CORPUS", "GCP_PROJECT_ID", "GCP_LOCATION"}

\* C5: when Retrieval runs with the corpus, project or location setting
\* absent, it raises a ValueError about a setting, no retrieval query is
\* issued, no message is appended and Synthesis is never called.
C5_RetrievalConfigHardFail ==
    (Ran("retrieve_node") /\ \E v \in RetrievalSettings : ~Truthy(env[v])) =>
        /\ status = "error"
        /\ error.type = "ValueError"
        /\ error.about \in RetrievalSettings \cup {"RAG_TOP_K"}
        /\ "rag_query" \notin Range(calls)
        /\ query = NoQuery /\ resp = Absent
        /\ LastRan("retrieve_node")
        /\ ~Ran("summary_node")
        /\ Len(state.messages) = 1 /\ state.messages[1].type = "human"

C5_Witness ==
    /\ Ran("retrieve_node")
    /\ Truthy(env["RAG_CORPUS"])
    /\ ~Truthy(env["GCP_PROJECT_ID"])
    /\ Truthy(env["GCP_LOCATION"])
    /\ error = Required("GCP_PROJECT_ID")

\* C6: a step of Ingestion taken while the bucket or the corpus setting is
\* absent issues no call, raises nothing, returns an empty message list,
\* leaves the state as it was and hands over to the Classifier.
C6_IngestionSoftFail ==
    [][(/\ Ready("upload_node")
        /\ ~Truthy(env["GCS_BUCKET"]) \/ ~Truthy(env["RAG_CORPUS"])
        /\ executed' # executed)
       => /\ executed' = Append(executed, "upload_node")
          /\ calls' = calls
          /\ error' = NoError
          /\ delta' = EmptyMessages
          /\ state' = state
          /\ status' = "running"
          /\ next' = "determine_question_type"]_vars

C6_Witness ==
    /\ executed = << "upload_node" >>
    /\ Truthy(env["GCS_BUCKET"])
    /\ ~Truthy(env["RAG_CORPUS"])
    /\ status = "running"
    /\ next = "determine_question_type"

\* C7: a step in which a node raises merges nothing into the state and ends
\* the invocation in an error outcome that carries the exception; after it
\* no step is taken.
C7_NoRecovery ==
    [][/\ (error = NoError /\ error' # NoError) =>
              /\ status' = "error"
              /\ next' = END
              /\ state' = state
       /\ status = "error" => UNCHANGED vars]_vars

C7_Witness ==
    /\ status = "error"
    /\ LastRan("retrieve_node")
    /\ error = Exception("ServiceError")
    /\ "rag_query" \in Range(calls)

\* C8: when the retrieval query returns zero passages, the dict Retrieval
\* returns holds exactly one message, whose content is the sentinel text,
\* and that message is what gets appended.
C8_ZeroPassagesSentinel ==
    (resp # Absent /\ ReturnedPassages(resp[1]) = << >>) =>
        /\ Len(state.messages) >= 2
        /\ state.messages[2].content = Sentinel
        /\ state.messages[2].type = "ai"
        /\ state.messages[2].tag = "rag_context"
        /\ LastRan("retrieve_node") =>
              /\ delta = Delta(Some(<< AIMessage(Sentinel, "rag_context") >>), Absent, Absent)
              /\ Len(state.messages) = 2

C8_Witness ==
    /\ LastRan("retrieve_node")
    /\ resp # Absent
    /\ resp[1].contexts # Absent
    /\ resp[1].contexts[1].contexts = Some(<< >>)
    /\ Last(state.messages).content = Sentinel

\* C9: after Corpus Metadata, corpus_data has one entry per listed file, in
\* the listing's order, and an entry's status is UNKNOWN exactly when the
\* listed file carries no status.
C9_CorpusDataMatchesListing ==
    listed # Absent =>
        /\ state.corpus_data # Absent
        /\ Len(state.corpus_data[1]) = Len(listed[1])
        /\ \A i \in 1..Len(listed[1]) :
              /\ state.corpus_data[1][i].name = listed[1][i].display_name
              /\ state.corpus_data[1][i].status = UNKNOWN <=> StatusAbsent(listed[1][i])

C9_Witness ==
    /\ LastRan("corpus_data_node")
    /\ listed # Absent
    /\ Len(listed[1]) = 2
    /\ StatusAbsent(listed[1][1]) /\ ~StatusAbsent(listed[1][2])
    /\ listed[1][1].display_name # listed[1][2].display_name
    /\ state.corpus_data[1][1].status = UNKNOWN
    /\ state.corpus_data[1][2].status = << "ERROR" >>

\* An entry is carried by the prompt when some message of the prompt
\* mentions the entry's name.
Carries(msgs, item) ==
    \E j \in 1..Len(msgs) : \E t \in Range(item.name) : t \in Range(msgs[j].content)

\* C10: in a completed invocation that went through Corpus Metadata,
\* corpus_data holds the listed entries, Synthesis has appended exactly one
\* assistant message, and the prompt Synthesis gave the model carries every
\* one of those entries.
C10_SynthesisCarriesEntries ==
    (status = "done" /\ Ran("corpus_data_node")) =>
        /\ state.corpus_data # Absent
        /\ Len(state.corpus_data[1]) = Len(listed[1])
        /\ Len(state.messages) = 2
        /\ Last(state.messages).type = "ai"
        /\ \A i \in 1..Len(state.corpus_data[1]) :
              Carries(prompt[1], state.corpus_data[1][i])

Count(node) == Cardinality({i \in 1..Len(executed) : executed[i] = node})

\* The number of steps so far that wrote question_type: the calls of the
\* Classifier that returned.
Writes ==
    Count("determine_question_type")
    - (IF LastRan("determine_question_type") /\ status = "error" THEN 1 ELSE 0)

\* C11: only a step of the Classifier writes question_type, and a returning
\* Classifier step always does; when the router has evaluated, question_type
\* has been written exactly once, and from the branch decision on neither
\* the decision nor question_type changes.
C11_QuestionTypeWrittenOnce ==
    [][/\ (executed' # executed /\ Last(executed') # "determine_question_type") =>
              /\ state'.question_type = state.question_type
              /\ error' = NoError => delta'.question_type = Absent
       /\ (executed' # executed /\ Last(executed') = "determine_question_type"
           /\ error' = NoError) =>
              /\ delta'.question_type # Absent
              /\ state'.question_type = delta'.question_type[1]
              /\ branch = None /\ branch' # None
       /\ executed' = executed => state'.question_type = state.question_type
       /\ branch # None =>
              /\ branch' = branch
              /\ state'.question_type = state.question_type
       /\ branch' # None => Writes' = 1
       /\ Writes' <= 1
       /\ status' = "done" => Writes' = 1]_vars

C11_Witness ==
    /\ status = "done"
    /\ state.question_type = "corpus_overview"
    /\ branch = "corpus_data_node"
    /\ Writes = 1

\* C12: corpus_data is present only if Corpus Metadata has run, which it
\* does only with question_type corpus_overview; an invocation that takes
\* the Retrieval branch ends with corpus_data absent.
C12_CorpusDataOnlyFromMetadata ==
    /\ state.corpus_data # Absent =>
          /\ Ran("corpus_data_node")
          /\ state.question_type = "corpus_overview"
          /\ listed # Absent
          /\ state.corpus_data[1] = corpus_data_list(listed[1])
    /\ Ran("retrieve_node") => state.corpus_data = Absent

C12_Witness ==
    /\ status = "done"
    /\ Ran("retrieve_node")
    /\ state.corpus_data = Absent
    /\ state.question_type = "specific_query"

Appends(node) == IF node \in {"retrieve_node", "summary_node"} THEN 1 ELSE 0

\* C13: a returning step of Retrieval or Synthesis makes messages one
\* longer, a returning step of any other node leaves its length; a
\* completed invocation ends with 3 messages on the Retrieval branch and
\* with 2 on the Corpus Metadata branch.
C13_MessageCounts ==
    [][/\ (executed' # executed /\ error' = NoError) =>
              /\ Len(state'.messages) = Len(state.messages) + Appends(Last(executed'))
              /\ IF delta'.messages = Absent THEN Appends(Last(executed')) = 0
                 ELSE Len(delta'.messages[1]) = Appends(Last(executed'))
       /\ (status' = "done" /\ Ran("retrieve_node")') => Len(state'.messages) = 3
       /\ (status' = "done" /\ Ran("corpus_data_node")') => Len(state'.messages) = 2]_vars

C13_Witness ==
    /\ status = "done"
    /\ entry = IngestionEntry
    /\ Ran("corpus_data_node")
    /\ Len(state.messages) = 2

MetadataSettings == {"RAG_CORPUS", "GCP_PROJECT_ID", "GCP_LOCATION"}

\* C14: when Corpus Metadata runs with the corpus, project or location
\* setting absent, it raises a ValueError about a setting before any listing
\* call is issued, corpus_data stays absent and Synthesis is never called.
C14_MetadataConfigHardFail ==
    (Ran("corpus_data_node") /\ \E v \in MetadataSettings : ~Truthy(env[v])) =>
        /\ status = "error"
        /\ error.type = "ValueError"
        /\ "rag_list" \notin Range(calls)
        /\ state.corpus_data = Absent
        /\ ~Ran("summary_node")

\* Indexes upload_file_by_index is probed with, beyond the one upload_node
\* passes.
IndexProbe == (0 - 1)..(MaxFiles + 1)

OutOfRange(index, dir) == index < 0 \/ index >= Cardinality(dir)

\* C15: with bucket and corpus configured and the index out of range for
\* the staging listing, upload_file_by_index raises IndexError having issued
\* no call; in a run the error ends the invocation before the Classifier.
C15_IndexOutOfRange ==
    /\ \A S \in SUBSET (1..MaxFiles), index \in IndexProbe, up, imp \in CallOutcomes :
          LET r == upload_file_by_index(env, index, "set", "set", Some(S), up, imp)
          IN  /\ OutOfRange(index, S) => r = Raised(Exception("IndexError"), << >>)
              /\ ~OutOfRange(index, S) => r.error # Exception("IndexError")
    /\ (Ran("upload_node") /\ fsread # Absent /\ fsread[1] # Absent
        /\ OutOfRange(UploadIndex, fsread[1][1])) =>
          /\ status = "error"
          /\ error = Exception("IndexError")
          /\ calls = << >>
          /\ executed = << "upload_node" >>
          /\ Len(state.messages) = 1
          /\ state.question_type = None /\ state.corpus_data = Absent
          /\ response = Absent

C15_Witness ==
    /\ Ran("upload_node")
    /\ fsread = Some(Some({2}))
    /\ error = Exception("IndexError")
    /\ Truthy(env["GCS_BUCKET"]) /\ Truthy(env["RAG_CORPUS"])

IngestionAbsorbsAll ==
    (Ran("upload_node") /\ Truthy(env["GCS_BUCKET"]) /\ Truthy(env["RAG_CORPUS"])
     /\ (~Truthy(env["GCP_PROJECT_ID"]) \/ ~Truthy(env["GCP_LOCATION"])))

\* C16 as stated: with bucket and corpus configured and the project or the
\* location absent, Ingestion raises nothing, uploads and imports nothing
\* and the Classifier runs next.
C16_IngestionAbsorbsEverySetting ==
    IngestionAbsorbsAll =>
        /\ error.type # "ValueError"
        /\ "gcs_upload" \notin Range(calls)
        /\ "rag_import" \notin Range(calls)
        /\ LastRan("upload_node") => (status = "running" /\ next = "determine_question_type")

\* C16 as amended: with bucket and corpus configured and the project or the
\* location absent, Ingestion never returns: it raises, the invocation ends
\* and the Classifier never runs; nothing is imported; and when the staging
\* listing has the file and the upload succeeds, the file has been uploaded
\* before import_files_to_rag_corpus raises the ValueError about the absent
\* setting.
C16_IngestionRaisesAfterUpload ==
    IngestionAbsorbsAll =>
        /\ status = "error"
        /\ executed = << "upload_node" >>
        /\ "rag_import" \notin Range(calls)
        /\ state.question_type = None
        /\ error.type = "ValueError" =>
              /\ calls = << "gcs_upload" >>
              /\ error = IF ~Truthy(env["GCP_PROJECT_ID"])
                         THEN Required("GCP_PROJECT_ID") ELSE Required("GCP_LOCATION")
        /\ (fsread[1] # Absent /\ ~OutOfRange(UploadIndex, fsread[1][1])) =>
              /\ calls = << "gcs_upload" >>
              /\ error.type \in {"ValueError", "ServiceError"}
        /\ (fsread[1] = Absent \/ OutOfRange(UploadIndex, fsread[1][1])) =>
              /\ calls = << >>
              /\ error.type \in {"FileNotFoundError", "IndexError"}

C16_Witness ==
    /\ IngestionAbsorbsAll
    /\ Truthy(env["GCP_PROJECT_ID"])
    /\ error = Required("GCP_LOCATION")
    /\ calls = << "gcs_upload" >>
    /\ status = "error"

\* The texts of the passages of l that carry one, in l's order.
RECURSIVE TextsOf(_)
TextsOf(l) ==
    IF l = << >> THEN << >>
    ELSE (IF l[1].text = Absent THEN << >> ELSE << l[1].text[1] >>) \o TextsOf(Tail(l))

\* C17: the context block Retrieval emits for a list of passages is the
\* same whether the response carries the list directly or one level deeper,
\* and when some passage has a text the block is those texts, in response
\* order, joined by a blank line.
C17_BothShapesUniform ==
    (resp # Absent /\ resp[1].contexts # Absent) =>
        LET l == ReturnedPassages(resp[1])
            flat == context_text(context_texts([contexts |-> Some(Flat(l))]))
            nested == context_text(context_texts([contexts |-> Some(Nested(l))]))
            block == state.messages[2].content
        IN  /\ flat = nested
            /\ block = flat
            /\ TextsOf(l) # << >> =>
                  /\ split(block, BlankLine) = TextsOf(l)
                  /\ block = Join(TextsOf(l), BlankLine)

C17_Witness ==
    /\ LastRan("retrieve_node")
    /\ resp = Some([contexts |-> Some(Nested(<< [text |-> Some(<< "p2" >>)],
                                                 [text |-> Some(<< "p1" >>)] >>))])
    /\ Last(state.messages).content = << "p2", BlankLine, "p1" >>

\* C18: in the graph main() builds, START points at the Classifier, and in
\* no invocation of that graph is Ingestion called or an upload or import
\* issued.
C18_IngestionUnreachable ==
    /\ PrimaryEntry # "upload_node"
    /\ entry = PrimaryEntry =>
          /\ ~Ran("upload_node")
          /\ next # "upload_node"
          /\ executed # << >> => executed[1] = "determine_question_type"
          /\ "gcs_upload" \notin Range(calls)
          /\ "rag_import" \notin Range(calls)
          /\ fsread = Absent

C18_Witness ==
    /\ entry = PrimaryEntry
    /\ status = "done"
    /\ Ran("retrieve_node")
    /\ ~Ran("upload_node")

\* C19: when the Classifier or Retrieval is about to run, and after it has
\* run, every message before it is the one seeded user message, so the last
\* message it reads is that user message; the query text Retrieval sends is
\* its content.
C19_InputIsUserMessage ==
    /\ (Ready("determine_question_type") \/ Ready("retrieve_node")
        \/ LastRan("determine_question_type")) =>
          /\ Len(state.messages) = 1
          /\ Last(state.messages).type = "human"
          /\ Last(state.messages).content \in UserInputs
    /\ query # NoQuery =>
          /\ state.messages[1].type = "human"
          /\ query[1].text = state.messages[1].content
    /\ Ran("retrieve_node") =>
          \A i \in 2..Len(state.messages) : state.messages[i].type = "ai"

C19_Witness ==
    /\ entry = IngestionEntry
    /\ executed = << "upload_node", "determine_question_type", "retrieve_node" >>
    /\ query # NoQuery
    /\ query[1].text = << "question", "f1" >>
    /\ "gcs_upload" \in Range(calls)

\* The index of a character in the base64 alphabet.
B64Index(c) == (CHOOSE i \in 1..Len(B64Alphabet) : B64Alphabet[i] = c) - 1

\* The bytes a padded base64 text stands for.
RECURSIVE b64decode(_)
b64decode(t) ==
    IF Len(t) = 0 THEN << >>
    ELSE LET first == << B64Index(t[1]) * 4 + (B64Index(t[2]) \div 16) >>
         IN  IF t[3] = "=" THEN first
             ELSE LET second == << (B64Index(t[2]) % 16) * 16 + (B64Index(t[3]) \div 4) >>
                  IN  IF t[4] = "=" THEN first \o second
                      ELSE first \o second
                           \o << (B64Index(t[3]) % 4) * 64 + B64Index(t[4]) >>
                           \o b64decode(SubSeq(t, 5, Len(t)))

\* The load step soft-fails: the file reference is empty or nothing exists
\* at it.
SoftFail == state.pdf_path = "" \/ (fsread # Absent /\ ~fsread[1].exists)
Seeded == Len(input[1].messages[1])

\* C20: in the graph load_pdf -> llm -> END, the load step appends nothing
\* and raises nothing when the file reference is empty or no file exists at
\* it, and the llm step is still called, once, and appends one reply; when
\* the file is there and read, the load step appends one user message whose
\* two parts carry the text of the message that was last and the encoded
\* document; a completed invocation ends with one message more than it was
\* seeded with in the soft-fail case and with two more otherwise (2 and 3
\* for a one-message seed).
C20_LoadSoftFailsLlmRuns ==
    [][/\ (executed' = Append(executed, "load_pdf") /\ SoftFail') =>
              /\ error' = NoError
              /\ delta'.messages = Some(<< >>)
              /\ state' = state
              /\ calls' = calls
              /\ Ready("llm")'
       /\ (executed' = Append(executed, "load_pdf") /\ ~SoftFail'
           /\ fsread'[1].bytes # Absent) =>
              /\ error' = NoError
              /\ Ready("llm")'
              /\ Len(state'.messages) = Len(state.messages) + 1
              /\ SubSeq(state'.messages, 1, Len(state.messages)) = state.messages
              /\ LET m == Last(state'.messages)
                 IN  /\ m.type = "human"
                     /\ Len(m.content) = 2
                     /\ m.content[1] = TextPart(Last(state.messages).content)
                     /\ m.content[2].type = "media"
                     /\ m.content[2].mime_type = "application/pdf"
                     /\ b64decode(m.content[2].data) = fsread'[1].bytes[1]
       /\ executed' = Append(executed, "llm") =>
              /\ executed = << "load_pdf" >>
              /\ calls' = << "llm_invoke" >>
              /\ prompt' = Some(state.messages)
              /\ error' = NoError =>
                    /\ Len(state'.messages) = Len(state.messages) + 1
                    /\ SubSeq(state'.messages, 1, Len(state.messages)) = state.messages
                    /\ Last(state'.messages).type = "ai"
                    /\ status' = "done"
       /\ status' = "done" =>
              /\ executed' = << "load_pdf", "llm" >>
              /\ Len(state'.messages) = Seeded' + (IF SoftFail' THEN 1 ELSE 2)
              /\ Seeded' = 1 => Len(state'.messages) = (IF SoftFail' THEN 2 ELSE 3)]_vars

C20_Witness ==
    /\ status = "done"
    /\ executed = << "load_pdf", "llm" >>
    /\ state.pdf_path = "report.pdf"
    /\ fsread = Some([exists |-> FALSE, bytes |-> Absent])
    /\ Seeded = 1
    /\ Len(state.messages) = 2
    /\ state.messages[2].type = "ai"

====
